---- MODULE Spec2Model ----
(***************************************************************************)
(* Model of the per-image resize step of handleConvert in src/app/page.tsx *)
(* (the dimension branch is the same code as src/unnamed/part_000).        *)
(*                                                                         *)
(* Spec: one behaviour is the processing of one decoded image, from the   *)
(* point where img.onload has resolved (page.tsx:101) to the point where  *)
(* resizedDataUrl is final (page.tsx:270).                                *)
(* BatchSpec: the component as a whole: handleFileChange, handleConvert   *)
(* with its validation, its loop over the files and its awaits, and the   *)
(* same per-image steps between the decode and the push of the outcome.   *)
(*                                                                         *)
(* Numbers.  JavaScript numbers are IEEE doubles.  The dimension branch    *)
(* divides and multiplies, so newWidth/newHeight are modelled as exact     *)
(* rationals <<numerator, denominator>> in lowest terms.  For every input  *)
(* with all of W, H, min, max <= 9, and for the four named scenario        *)
(* inputs, the double computation and the exact one give the same result   *)
(* (the first input where they differ is W=1, H=18, min=9, max=14), so the *)
(* bounds MaxDim and MaxEnv stay below 9.  currentQuality is modelled in   *)
(* hundredths (0.9 is 90, the step 0.05 is 5, the floor 0.1 is 10): the    *)
(* doubles 0.9 - 0.05 - ... drift by a few ulps but Math.max(0.1, ...)     *)
(* lands on exactly 0.1 at the 16th subtraction, as the model does.        *)
(* Math.round(x * 0.9) on doubles equals the exact round-half-up of 9x/10  *)
(* for every integer x below 100000.                                       *)
(***************************************************************************)
EXTENDS Integers, Sequences, FiniteSets, TLC

VARIABLES
    resizeMode,          \* "dimensions" | "fileSize"            page.tsx:17
    imgWidth, imgHeight, \* img.width, img.height of the decoded image
    minSize, maxSize,            \* pixel envelope               page.tsx:13-14
    minFileSize, maxFileSize,    \* KB envelope                  page.tsx:15-16
    pc,                  \* position inside the per-image body of handleConvert
    newWidth, newHeight, \* dimension branch locals (rationals)  page.tsx:120-121
    canvas,              \* the shared canvas: [width, height]   page.tsx:26
    currentQuality, currentWidth, currentHeight,            \* page.tsx:155-157
    currentFileSizeKB, iterations,                          \* page.tsx:158-160
    lastValidDataUrl, lastValidFileSizeKB,                  \* page.tsx:161-162
    initialDataUrl, initialSizeKB,                          \* page.tsx:180
    resizedDataUrl,                                         \* page.tsx:115
    message,             \* last setMessage of this image        page.tsx:23
    renderLog            \* history of updateCanvasAndGetSize calls (summary)

VARIABLES
    selectedFiles,       \* React state: the selected files      page.tsx:12
    resizedImages,       \* React state: the displayed outcomes  page.tsx:21
    loading,             \* React state                          page.tsx:22
    batchFiles,          \* selectedFiles as captured by the running handleConvert
    batchCurrent,        \* selectedFiles was not replaced since that handleConvert began
    phase,               \* per file of the batch: where its loop iteration stands
    running,             \* the handleConvert task is executing (not at an await)
    newResizedImages,    \* local of handleConvert               page.tsx:79
    statusLog,           \* per file of the batch: number of setMessage calls for it
    canvasLog            \* which file's canvas sequence is open, and interleavings

batchVars == <<selectedFiles, resizedImages, loading, batchFiles,
               batchCurrent, phase, running, newResizedImages, statusLog, canvasLog>>

vars == <<selectedFiles, resizedImages, loading, batchFiles,
          batchCurrent, phase, running, newResizedImages, statusLog, canvasLog,
          resizeMode, imgWidth, imgHeight, minSize, maxSize, minFileSize,
          maxFileSize, pc, newWidth, newHeight, canvas, currentQuality,
          currentWidth, currentHeight, currentFileSizeKB, iterations,
          lastValidDataUrl, lastValidFileSizeKB, initialDataUrl, initialSizeKB,
          resizedDataUrl, message, renderLog>>

----------------------------------------------------------------------------
(* Bounds of the model *)

MaxDim == 8      \* largest intrinsic width/height drawn in Init
MaxEnv == 6      \* largest pixel-envelope value drawn in Init
MaxEnvKB == 3    \* largest KB-envelope value; encoder sizes range over 0..MaxEnvKB+1

(* Program constants *)

maxIterations == 100
QualityInit == 90
QualityStep == 5
QualityMin == 10
scaleFactor == <<9, 10>>

----------------------------------------------------------------------------
(* JavaScript number arithmetic on non-negative rationals <<n, d>>, d > 0 *)

RECURSIVE GCD(_, _)
GCD(a, b) == IF b = 0 THEN a ELSE GCD(b, a % b)

Norm(n, d) == LET g == GCD(n, d) IN <<n \div g, d \div g>>

Num(i) == <<i, 1>>

Div(a, b) == Norm(a[1] * b[2], a[2] * b[1])

Mul(a, b) == Norm(a[1] * b[1], a[2] * b[2])

Less(a, b) == a[1] * b[2] < b[1] * a[2]

\* Math.round: nearest integer, halves rounded up
MathRound(a) == (2 * a[1] + a[2]) \div (2 * a[2])

Max(a, b) == IF a > b THEN a ELSE b

----------------------------------------------------------------------------
(* Data URLs.  A data URL is identified by the render that produced it: its *)
(* ordinal among the renders of this image, the codec, the canvas size, the *)
(* quality argument (0 when toDataURL is called without one) and the size   *)
(* in KB of the bytes it encodes (what dataURLtoBlob(url).size / 1024       *)
(* returns).  EmptyDataUrl is the empty string "".                          *)

EmptyDataUrl ==
    [n |-> 0, mime |-> "", width |-> 0, height |-> 0, quality |-> 0, sizeKB |-> 0]

\* canvas.toDataURL(mime, quality) on a canvas of the given size
ToDataURL(k, mime, width, height, quality, sizeKB) ==
    [n |-> k, mime |-> mime, width |-> width, height |-> height,
     quality |-> quality, sizeKB |-> sizeKB]

\* the sizes the encoder may produce: below, inside and above any envelope
SizesKB == 0 .. (MaxEnvKB + 1)

EmptyLog ==
    [count |-> 0, last |-> EmptyDataUrl, lastLeMax |-> EmptyDataUrl,
     anyInRange |-> FALSE, overMax |-> 0]

\* what one more call of updateCanvasAndGetSize adds to the history
Logged(log, url) ==
    [count |-> log.count + 1,
     last |-> url,
     lastLeMax |-> IF url.sizeKB <= maxFileSize THEN url ELSE log.lastLeMax,
     anyInRange |-> log.anyInRange
                    \/ (url.sizeKB >= minFileSize /\ url.sizeKB <= maxFileSize),
     overMax |-> log.overMax + (IF url.sizeKB > maxFileSize THEN 1 ELSE 0)]

----------------------------------------------------------------------------
(* Dimension branch: the two passes and the rounding, as pure functions    *)

\* variant: the branch test is inverted, the shorter side is put on max
MaxPassShorterSide(w, h, mx) ==
    IF Less(mx, w) \/ Less(mx, h)
    THEN IF Less(w, h)
         THEN <<mx, Mul(Div(h, w), mx)>>
         ELSE <<Mul(Div(w, h), mx), mx>>
    ELSE <<w, h>>

\* variant: the longer side is never assigned max, only the other side is scaled
MaxPassNoAssign(w, h, mx) ==
    IF Less(mx, w) \/ Less(mx, h)
    THEN IF Less(h, w)
         THEN <<w, Mul(Div(h, w), mx)>>
         ELSE <<Mul(Div(w, h), mx), h>>
    ELSE <<w, h>>

\* variant: each side is clamped to max on its own
MaxPassClampEach(w, h, mx) ==
    <<IF Less(mx, w) THEN mx ELSE w, IF Less(mx, h) THEN mx ELSE h>>

\* "Resize based on max dimension": <<newWidth, newHeight>> after the pass
MaxPass(w, h, mx) ==
    IF Less(mx, w) \/ Less(mx, h)
    THEN IF Less(h, w)
         THEN <<mx, Mul(Div(h, w), mx)>>
         ELSE <<Mul(Div(w, h), mx), mx>>
    ELSE <<w, h>>

\* "Resize based on min dimension": <<newWidth, newHeight>> after the pass
MinPass(w, h, mn) ==
    IF Less(w, mn) \/ Less(h, mn)
    THEN IF Less(w, h)
         THEN <<Mul(Div(w, h), mn), mn>>
         ELSE <<mn, Mul(Div(h, w), mn)>>
    ELSE <<w, h>>

RoundBoth(w, h) == <<MathRound(w), MathRound(h)>>

\* the whole dimension computation on integer inputs: <<width, height>> integers
ResizeDimensions(w, h, mn, mx) ==
    LET a == MaxPass(Num(w), Num(h), Num(mx))
        b == MinPass(a[1], a[2], Num(mn))
    IN  RoundBoth(b[1], b[2])

----------------------------------------------------------------------------
(* Initial states: a valid envelope for the active mode (handleConvert has *)
(* returned early otherwise) and one decoded image.                        *)

ScenarioInputs ==
    { <<4000, 2000, 100, 800>>, <<50, 50, 100, 800>>, <<4000, 1, 100, 800>>,
      <<50, 100, 100, 800>> }

DimensionInputs ==
    { <<w, h, mn, mx>> \in (1..MaxDim) \X (1..MaxDim) \X (1..MaxEnv) \X (1..MaxEnv) :
        mn <= mx } \cup ScenarioInputs

FileSizeInputs ==
    { <<w, h, mn, mx>> \in (1..MaxDim) \X (1..MaxDim) \X (1..MaxEnvKB) \X (1..MaxEnvKB) :
        mn <= mx }

\* the batch state while the only file of a batch is in its per-image steps
SingleImage ==
    /\ selectedFiles = <<"image">>
    /\ resizedImages = <<>>
    /\ loading = TRUE
    /\ batchFiles = <<"image">>
    /\ batchCurrent = TRUE
    /\ phase = <<"sync">>
    /\ running = TRUE
    /\ newResizedImages = <<>>
    /\ statusLog = <<0>>
    /\ canvasLog = [owner |-> 0, interleaved |-> FALSE]

Locals0 ==
    /\ pc = "branch"
    /\ newWidth = Num(0)
    /\ newHeight = Num(0)
    /\ canvas = [width |-> 0, height |-> 0]
    /\ currentQuality = 0
    /\ currentWidth = 0
    /\ currentHeight = 0
    /\ currentFileSizeKB = 0
    /\ iterations = 0
    /\ lastValidDataUrl = EmptyDataUrl
    /\ lastValidFileSizeKB = 0
    /\ initialDataUrl = EmptyDataUrl
    /\ initialSizeKB = 0
    /\ resizedDataUrl = EmptyDataUrl
    /\ message = "Resizing images..."
    /\ renderLog = EmptyLog

Init ==
    /\ \/ /\ resizeMode = "dimensions"
          /\ \E i \in DimensionInputs :
                /\ imgWidth = i[1]
                /\ imgHeight = i[2]
                /\ minSize = i[3]
                /\ maxSize = i[4]
          /\ minFileSize = 0
          /\ maxFileSize = 0
       \/ /\ resizeMode = "fileSize"
          /\ \E i \in FileSizeInputs :
                /\ imgWidth = i[1]
                /\ imgHeight = i[2]
                /\ minFileSize = i[3]
                /\ maxFileSize = i[4]
          /\ minSize = 0
          /\ maxSize = 0
    /\ Locals0
    /\ SingleImage

fsLocals == <<currentQuality, currentWidth, currentHeight, currentFileSizeKB,
              iterations, lastValidDataUrl, lastValidFileSizeKB, initialDataUrl,
              initialSizeKB, renderLog>>

inputs == <<resizeMode, imgWidth, imgHeight, minSize, maxSize, minFileSize,
            maxFileSize>>

\* the batch state that the steps on one image leave alone
loopVars == <<selectedFiles, resizedImages, loading, batchFiles,
              batchCurrent, phase, running, newResizedImages>>

\* the file whose loop iteration is between the decode and the push
CurrentFile == CHOOSE j \in DOMAIN phase : phase[j] = "sync"

\* handleConvert is executing the per-image block of some file
InSync == running /\ \E j \in DOMAIN phase : phase[j] = "sync"

\* canvasRef.current is written or drawn on for the current file
Touched(log) ==
    [owner |-> CurrentFile,
     interleaved |-> log.interleaved \/ log.owner \notin {0, CurrentFile}]

\* a setMessage call that reports on file j
Reported(log, j) == [log EXCEPT ![j] = @ + 1]

----------------------------------------------------------------------------
(* Dimension branch, page.tsx:118-152                                      *)

EnterDimensions ==
    /\ InSync
    /\ pc = "branch"
    /\ resizeMode = "dimensions"
    /\ newWidth' = Num(imgWidth)
    /\ newHeight' = Num(imgHeight)
    /\ pc' = "maxPass"
    /\ UNCHANGED <<inputs, fsLocals, canvas, resizedDataUrl, message, batchVars>>

MaxPassStep ==
    /\ InSync
    /\ pc = "maxPass"
    /\ LET r == MaxPass(newWidth, newHeight, Num(maxSize))
       IN  /\ newWidth' = r[1]
           /\ newHeight' = r[2]
    /\ pc' = "minPass"
    /\ UNCHANGED <<inputs, fsLocals, canvas, resizedDataUrl, message, batchVars>>

MinPassStep ==
    /\ InSync
    /\ pc = "minPass"
    /\ LET r == MinPass(newWidth, newHeight, Num(minSize))
       IN  /\ newWidth' = r[1]
           /\ newHeight' = r[2]
    /\ pc' = "round"
    /\ UNCHANGED <<inputs, fsLocals, canvas, resizedDataUrl, message, batchVars>>

\* Math.round of both, canvas resize, drawImage, toDataURL("image/png")
RoundAndDraw ==
    /\ InSync
    /\ pc = "round"
    /\ LET r == RoundBoth(newWidth, newHeight)
       IN  /\ newWidth' = Num(r[1])
           /\ newHeight' = Num(r[2])
           /\ canvas' = [width |-> r[1], height |-> r[2]]
           /\ \E s \in SizesKB :
                 resizedDataUrl' = ToDataURL(1, "image/png", r[1], r[2], 0, s)
    /\ pc' = "done"
    /\ canvasLog' = Touched(canvasLog)
    /\ UNCHANGED <<inputs, fsLocals, message, loopVars, statusLog>>

----------------------------------------------------------------------------
(* File-size branch, page.tsx:154-267                                      *)

\* variant: the "already smaller than the minimum" arm is missing
InitialBranchNoBelowMin(sizeKB) ==
    IF sizeKB >= minFileSize /\ sizeKB <= maxFileSize THEN "inRange" ELSE "tooLarge"

\* the three-way test on the initial render
InitialBranch(sizeKB) ==
    IF sizeKB >= minFileSize /\ sizeKB <= maxFileSize THEN "inRange"
    ELSE IF sizeKB < minFileSize THEN "belowMin"
    ELSE "tooLarge"

\* variant: no iteration budget
LoopCondNoCap == currentFileSizeKB > maxFileSize

\* variant: the loop goes on until the size is inside the envelope
LoopCondUntilInRange ==
    /\ currentFileSizeKB > maxFileSize \/ currentFileSizeKB < minFileSize
    /\ iterations < maxIterations

\* the while condition
LoopCond == currentFileSizeKB > maxFileSize /\ iterations < maxIterations

\* variant: the dimension phase starts one quality step early
QualityPhaseEarly(q) == q > QualityMin + QualityStep

\* "Prioritize quality reduction first"
QualityPhase(q) == q > QualityMin

ReduceQuality(q) == Max(QualityMin, q - QualityStep)

\* variant: Math.floor in place of Math.round
ShrinkDimensionFloor(x) ==
    LET r == Mul(Num(x), scaleFactor)
        f == r[1] \div r[2]
    IN  IF f < 1 THEN 1 ELSE f

\* x *= scaleFactor; Math.round; "Ensure dimensions don't go below 1x1"
ShrinkDimension(x) ==
    LET r == MathRound(Mul(Num(x), scaleFactor))
    IN  IF r < 1 THEN 1 ELSE r

\* variant: the test on lastValidDataUrl is inverted
SelectResultInverted(lastValid, lastGenerated) ==
    IF lastValid = EmptyDataUrl THEN lastValid ELSE lastGenerated

\* "use the last valid data URL if found, otherwise use the last generated one"
SelectResult(lastValid, lastGenerated) ==
    IF lastValid # EmptyDataUrl THEN lastValid ELSE lastGenerated

EnterFileSize ==
    /\ InSync
    /\ pc = "branch"
    /\ resizeMode = "fileSize"
    /\ currentQuality' = QualityInit
    /\ currentWidth' = imgWidth
    /\ currentHeight' = imgHeight
    /\ currentFileSizeKB' = 0
    /\ iterations' = 0
    /\ lastValidDataUrl' = EmptyDataUrl
    /\ lastValidFileSizeKB' = 0
    /\ pc' = "initial"
    /\ UNCHANGED <<inputs, newWidth, newHeight, canvas, initialDataUrl,
                   initialSizeKB, resizedDataUrl, message, renderLog, batchVars>>

\* the initial render and the test on it
InitialCheck ==
    /\ InSync
    /\ pc = "initial"
    /\ \E s \in SizesKB :
          LET url == ToDataURL(renderLog.count + 1, "image/jpeg", currentWidth,
                               currentHeight, currentQuality, s)
              br == InitialBranch(s)
          IN  /\ canvas' = [width |-> currentWidth, height |-> currentHeight]
              /\ renderLog' = Logged(renderLog, url)
              /\ initialDataUrl' = url
              /\ initialSizeKB' = s
              /\ currentFileSizeKB' = s
              /\ resizedDataUrl' = url
              /\ lastValidDataUrl' = IF br = "tooLarge" THEN lastValidDataUrl ELSE url
              /\ lastValidFileSizeKB' = IF br = "tooLarge" THEN lastValidFileSizeKB ELSE s
              /\ message' = IF br = "belowMin" THEN "already smaller" ELSE message
              /\ statusLog' = IF br = "belowMin"
                              THEN Reported(statusLog, CurrentFile)
                              ELSE statusLog
              /\ pc' = IF br = "tooLarge" THEN "loop" ELSE "done"
    /\ canvasLog' = Touched(canvasLog)
    /\ UNCHANGED <<inputs, newWidth, newHeight, currentQuality, currentWidth,
                   currentHeight, iterations, loopVars>>

\* one pass through the body of the while loop
LoopIteration ==
    /\ InSync
    /\ pc = "loop"
    /\ LoopCond
    /\ iterations' = iterations + 1
    /\ IF QualityPhase(currentQuality)
       THEN /\ currentQuality' = ReduceQuality(currentQuality)
            /\ UNCHANGED <<currentWidth, currentHeight>>
       ELSE /\ currentWidth' = ShrinkDimension(currentWidth)
            /\ currentHeight' = ShrinkDimension(currentHeight)
            /\ UNCHANGED currentQuality
    /\ \E s \in SizesKB :
          LET url == ToDataURL(renderLog.count + 1, "image/jpeg", currentWidth',
                               currentHeight', currentQuality', s)
          IN  /\ canvas' = [width |-> currentWidth', height |-> currentHeight']
              /\ renderLog' = Logged(renderLog, url)
              /\ currentFileSizeKB' = s
              /\ resizedDataUrl' = url
              /\ lastValidDataUrl' = IF s <= maxFileSize THEN url ELSE lastValidDataUrl
              /\ lastValidFileSizeKB' = IF s <= maxFileSize THEN s ELSE lastValidFileSizeKB
              /\ pc' = IF s <= maxFileSize /\ s >= minFileSize THEN "afterLoop" ELSE "loop"
    /\ canvasLog' = Touched(canvasLog)
    /\ UNCHANGED <<inputs, newWidth, newHeight, initialDataUrl, initialSizeKB, message,
                   loopVars, statusLog>>

\* the loop is left (condition false, or break) and the result is chosen
LoopExit ==
    /\ InSync
    /\ \/ pc = "afterLoop"
       \/ pc = "loop" /\ ~LoopCond
    /\ resizedDataUrl' = SelectResult(lastValidDataUrl, resizedDataUrl)
    /\ currentFileSizeKB' = IF lastValidDataUrl # EmptyDataUrl
                            THEN lastValidFileSizeKB
                            ELSE currentFileSizeKB
    /\ message' = IF lastValidDataUrl # EmptyDataUrl THEN message ELSE "closest size"
    /\ statusLog' = IF lastValidDataUrl # EmptyDataUrl
                    THEN statusLog
                    ELSE Reported(statusLog, CurrentFile)
    /\ pc' = "done"
    /\ UNCHANGED <<inputs, newWidth, newHeight, canvas, currentQuality, currentWidth,
                   currentHeight, iterations, lastValidDataUrl, lastValidFileSizeKB,
                   initialDataUrl, initialSizeKB, renderLog, loopVars, canvasLog>>

----------------------------------------------------------------------------

Next ==
    \/ EnterDimensions
    \/ MaxPassStep
    \/ MinPassStep
    \/ RoundAndDraw
    \/ EnterFileSize
    \/ InitialCheck
    \/ LoopIteration
    \/ LoopExit

Spec == Init /\ [][Next]_vars

----------------------------------------------------------------------------
(* Claims about the dimension branch                                       *)

DimensionsDone == resizeMode = "dimensions" /\ pc = "done"

\* <<newWidth, newHeight>> as they stand between the two passes, from the inputs
AfterMaxPass == MaxPass(Num(imgWidth), Num(imgHeight), Num(maxSize))

Smaller(a, b) == IF Less(a, b) THEN a ELSE b

Larger(a, b) == IF Less(a, b) THEN b ELSE a

MinPassFires ==
    Less(AfterMaxPass[1], Num(minSize)) \/ Less(AfterMaxPass[2], Num(minSize))

Abs(x) == IF x < 0 THEN -x ELSE x

\* C1: when the smaller dimension after the max-pass is below min, the min-pass
\* scales both dimensions by min / (that smaller dimension): after it the shorter
\* side is exactly min, and neither output dimension is below min.
C1_MinPassShorterSideOnMin ==
    /\ (resizeMode = "dimensions" /\ pc = "round" /\ MinPassFires) =>
          LET k == Div(Num(minSize), Smaller(AfterMaxPass[1], AfterMaxPass[2]))
          IN  /\ newWidth = Mul(AfterMaxPass[1], k)
              /\ newHeight = Mul(AfterMaxPass[2], k)
              /\ Smaller(newWidth, newHeight) = Num(minSize)
    /\ (DimensionsDone /\ MinPassFires) =>
          /\ canvas.width >= minSize
          /\ canvas.height >= minSize

\* C2: neither output dimension exceeds max, and when max(W,H) > max the max-pass
\* scales both dimensions by max / max(W,H), the longer side landing exactly on max.
C2_MaxBound ==
    /\ DimensionsDone => canvas.width <= maxSize /\ canvas.height <= maxSize
    /\ (resizeMode = "dimensions" /\ pc = "minPass"
        /\ Max(imgWidth, imgHeight) > maxSize) =>
          LET k == Div(Num(maxSize), Num(Max(imgWidth, imgHeight)))
          IN  /\ newWidth = Mul(Num(imgWidth), k)
              /\ newHeight = Mul(Num(imgHeight), k)
              /\ Larger(newWidth, newHeight) = Num(maxSize)

C2_Witness ==
    /\ DimensionsDone
    /\ <<imgWidth, imgHeight, minSize, maxSize>> = <<4000, 2000, 100, 800>>
    /\ canvas = [width |-> 800, height |-> 400]

\* C3: both dimensions handed to the render step are integers >= 1.
C3_OutputDimsPositive ==
    DimensionsDone =>
        /\ canvas.width \in Nat /\ canvas.width >= 1
        /\ canvas.height \in Nat /\ canvas.height >= 1

\* C4: the dimension computation applied to its own output, with the same
\* envelope, returns that output unchanged.
C4_Idempotent ==
    DimensionsDone =>
        ResizeDimensions(canvas.width, canvas.height, minSize, maxSize)
            = <<canvas.width, canvas.height>>

C4_Witness ==
    /\ DimensionsDone
    /\ imgWidth > maxSize
    /\ MinPassFires
    /\ canvas.width # imgWidth
    /\ canvas.height # imgHeight

\* C5: the output has the aspect ratio of the input up to rounding: newW is
\* within 1 pixel of newH*W/H, or newH is within 1 pixel of newW*H/W.
C5_AspectRatio ==
    DimensionsDone =>
        LET d == Abs(canvas.width * imgHeight - canvas.height * imgWidth)
        IN  d <= imgHeight \/ d <= imgWidth

C5_Witness ==
    /\ DimensionsDone
    /\ imgWidth > maxSize
    /\ canvas.width * imgHeight # canvas.height * imgWidth
    /\ canvas.width = maxSize

----------------------------------------------------------------------------
(* Claims about the file-size branch                                       *)

FileSizeDone == resizeMode = "fileSize" /\ pc = "done"

\* the initial render has been made
Rendered == resizeMode = "fileSize" /\ renderLog.count >= 1

InEnvelope(sizeKB) == sizeKB >= minFileSize /\ sizeKB <= maxFileSize

\* C6: when the initial render (quality 0.9, intrinsic size) is not over the
\* maximum, it is the only render and it is the result, unmodified; the image is
\* reported as already smaller exactly when its size is below the minimum
\* (AcceptedBelowMin), and not at all when it is inside the envelope (Satisfied).
C6_NoIterationUnlessOverMax ==
    (Rendered /\ initialSizeKB <= maxFileSize) =>
        /\ pc = "done"
        /\ renderLog.count = 1
        /\ iterations = 0
        /\ resizedDataUrl = initialDataUrl
        /\ resizedDataUrl = ToDataURL(1, "image/jpeg", imgWidth, imgHeight,
                                      QualityInit, initialSizeKB)
        /\ currentQuality = QualityInit
        /\ <<currentWidth, currentHeight>> = <<imgWidth, imgHeight>>
        /\ initialSizeKB >= minFileSize => message = "Resizing images..."
        /\ initialSizeKB < minFileSize => message = "already smaller"

C6_Witness ==
    /\ FileSizeDone
    /\ initialSizeKB < minFileSize
    /\ renderLog.count = 1
    /\ message = "already smaller"

\* C7: the iteration count is at most 100 (at most 101 renders), quality stays
\* in [0.1, 0.9], and the width and height of every render are at least 1.
C7_SearchBounds ==
    (resizeMode = "fileSize" /\ pc # "branch") =>
        /\ iterations \in 0 .. maxIterations
        /\ renderLog.count <= maxIterations + 1
        /\ currentQuality >= QualityMin /\ currentQuality <= QualityInit
        /\ currentWidth >= 1 /\ currentHeight >= 1
        /\ Rendered =>
              /\ canvas.width >= 1 /\ canvas.height >= 1
              /\ renderLog.last.width >= 1 /\ renderLog.last.height >= 1
              /\ renderLog.last.quality >= QualityMin

C7_Witness ==
    /\ FileSizeDone
    /\ iterations = maxIterations
    /\ renderLog.count = maxIterations + 1
    /\ currentQuality = QualityMin
    /\ currentWidth < imgWidth

\* the number of quality steps from 0.9 down to 0.1
QualitySteps == (QualityInit - QualityMin) \div QualityStep

IterationStep == iterations' = iterations + 1

\* quality as a function of the iteration count; dimensions untouched until
\* quality has reached the floor
QualitySchedule ==
    /\ currentQuality = Max(QualityMin, QualityInit - QualityStep * iterations)
    /\ iterations <= QualitySteps => <<currentWidth, currentHeight>> = <<imgWidth, imgHeight>>

\* an iteration is a quality step (0.05 down, dimensions untouched) or, with
\* quality already at 0.1, a dimension step (each side round(0.9 x), at least 1)
StepShape ==
    \/ /\ currentQuality > QualityMin
       /\ currentQuality' = currentQuality - QualityStep
       /\ <<currentWidth', currentHeight'>> = <<currentWidth, currentHeight>>
    \/ /\ currentQuality = QualityMin
       /\ currentQuality' = QualityMin
       /\ currentWidth' = Max(1, (9 * currentWidth + 5) \div 10)
       /\ currentHeight' = Max(1, (9 * currentHeight + 5) \div 10)

ExactlyOneChanges ==
    (currentQuality' # currentQuality)
        # (<<currentWidth', currentHeight'>> # <<currentWidth, currentHeight>>)

\* C8 as stated: every iteration changes exactly one of quality or dimensions,
\* following the two-phase schedule.
C8_ExactlyOneChangesEachIteration ==
    [][IterationStep => (StepShape /\ QualitySchedule' /\ ExactlyOneChanges)]_vars

\* C8: every iteration applies exactly one of the two adjustments, so it changes
\* at most one of quality or dimensions (a dimension step leaves a side of 1 to 5
\* pixels as it is); quality drops by 0.05 per iteration and is at 0.1 from
\* iteration 16 on with the dimensions untouched until then; every later
\* iteration leaves quality at 0.1 and scales the dimensions by 0.9.
C8_TwoPhase ==
    [][IterationStep => (StepShape /\ QualitySchedule')]_vars

C8_Witness ==
    /\ resizeMode = "fileSize"
    /\ iterations > QualitySteps
    /\ currentQuality = QualityMin
    /\ currentWidth < imgWidth
    /\ currentHeight < imgHeight

\* the search has been entered and has ended
SearchEnded ==
    /\ resizeMode = "fileSize"
    /\ pc \in {"afterLoop", "done"}
    /\ initialSizeKB > maxFileSize

\* C9 as stated: the search ends only on a render inside the envelope or on an
\* exhausted budget; a render below the minimum does not end it.
C9_EndsOnlyInEnvelopeOrBudget ==
    SearchEnded =>
        InEnvelope(renderLog.last.sizeKB) \/ iterations = maxIterations

\* C9: once the initial render is over the maximum, the search ends exactly when
\* a render is at or below the maximum (inside the envelope, or below the
\* minimum) or when the budget of 100 iterations is exhausted: every render
\* before the last one is over the maximum, and a render at or below the maximum
\* is recorded as the candidate and is the last one.
C9_StopCondition ==
    /\ SearchEnded =>
          /\ renderLog.last.sizeKB <= maxFileSize \/ iterations = maxIterations
          /\ renderLog.count = iterations + 1
    /\ Rendered =>
          /\ renderLog.overMax >= renderLog.count - 1
          /\ renderLog.last.sizeKB <= maxFileSize =>
                /\ lastValidDataUrl = renderLog.last
                /\ pc \in {"afterLoop", "done", "loop"}
                /\ ~(pc = "loop" /\ LoopCond)
          /\ (pc = "loop" /\ renderLog.last.sizeKB > maxFileSize
              /\ iterations < maxIterations) => LoopCond

C9_Witness ==
    /\ SearchEnded
    /\ pc = "done"
    /\ renderLog.last.sizeKB < minFileSize
    /\ iterations >= 1
    /\ iterations < maxIterations
    /\ resizedDataUrl = renderLog.last

\* C10: when no render was inside the envelope, the result is the most recent
\* render at or below the maximum if there is one, and the last render
\* otherwise; a result over the maximum occurs only after all 100 iterations,
\* every render having been over the maximum.
C10_TerminalSelection ==
    FileSizeDone =>
        /\ ~renderLog.anyInRange =>
              resizedDataUrl = IF renderLog.lastLeMax # EmptyDataUrl
                               THEN renderLog.lastLeMax
                               ELSE renderLog.last
        /\ resizedDataUrl.sizeKB > maxFileSize =>
              /\ iterations = maxIterations
              /\ renderLog.count = maxIterations + 1
              /\ renderLog.overMax = renderLog.count

C10_Witness ==
    /\ FileSizeDone
    /\ ~renderLog.anyInRange
    /\ renderLog.lastLeMax = EmptyDataUrl
    /\ resizedDataUrl = renderLog.last
    /\ resizedDataUrl.sizeKB > maxFileSize
    /\ message = "closest size"

----------------------------------------------------------------------------
(* Claims about the dimension phase of the file-size search                *)

\* an iteration taken with quality already at 0.1
DimensionStep == IterationStep /\ currentQuality = QualityMin

\* C15 as stated: in a dimension step neither side increases and every side
\* greater than 1 becomes strictly smaller.
C15_StrictShrinkAboveOne ==
    [][DimensionStep =>
          /\ currentWidth' <= currentWidth
          /\ currentHeight' <= currentHeight
          /\ currentWidth > 1 => currentWidth' < currentWidth
          /\ currentHeight > 1 => currentHeight' < currentHeight]_vars

\* C15: in a dimension step neither side increases; a side greater than 5
\* becomes strictly smaller (round(0.9 x), at least 1) and a side of 1 to 5
\* pixels stays as it is, so repeated dimension steps bring a side above 5 down
\* to 5 and no further: 1x1 is reached only from a side that starts at 1.
C15_ShrinkStallsAtFive ==
    [][DimensionStep =>
          /\ currentWidth' <= currentWidth
          /\ currentHeight' <= currentHeight
          /\ currentWidth > 5 => currentWidth' < currentWidth /\ currentWidth' >= 5
          /\ currentHeight > 5 => currentHeight' < currentHeight /\ currentHeight' >= 5
          /\ currentWidth <= 5 => currentWidth' = currentWidth
          /\ currentHeight <= 5 => currentHeight' = currentHeight
          /\ (iterations' = maxIterations) =>
                /\ currentWidth' = IF imgWidth > 5 THEN 5 ELSE imgWidth
                /\ currentHeight' = IF imgHeight > 5 THEN 5 ELSE imgHeight]_vars

C15_Witness ==
    /\ resizeMode = "fileSize"
    /\ iterations = maxIterations
    /\ imgWidth > 5
    /\ currentWidth = 5
    /\ imgHeight \in 2 .. 5
    /\ currentHeight = imgHeight

----------------------------------------------------------------------------
(* The batch: handleFileChange, page.tsx:43-49, and handleConvert,         *)
(* page.tsx:51-283.  handleConvert is one async task: it executes          *)
(* (running) until it reaches an await, and goes on when the awaited       *)
(* promise settles.  Event handlers run only while no task is executing.   *)
(* The Convert button is disabled while loading (page.tsx:471), so at most *)
(* one handleConvert is in flight.  The button is also disabled for an     *)
(* empty selection and for an invalid envelope (page.tsx:472-480); the     *)
(* handler repeats those tests, and the model calls it in these states as  *)
(* well, so that what the handler does there can be examined.              *)

\* longest list of files selected at the start
MaxFiles == 2

\* longest list of files picked by a handleFileChange of the behaviour
MaxPicked == 1

\* file.type is not image/*; an image/* file that cannot be read or decoded;
\* an image/* file that decodes
FileKinds == {"text", "corrupt", "image"}

Selections == UNION { [1 .. n -> FileKinds] : n \in 0 .. MaxFiles }

PickedLists == UNION { [1 .. n -> FileKinds] : n \in 0 .. MaxPicked }

\* <<min, max>> of the active mode as typed by the user
BatchEnvelopes == { <<0, 2>>, <<2, 0>>, <<3, 2>>, <<2, 3>> }

\* intrinsic <<width, height>> of a decoded image
BatchImageSizes == { <<6, 3>> }

Terminal == {"skipped", "failed", "noCanvas", "pushed"}

Finished(j) == phase[j] \in Terminal

NoCanvasLog == [owner |-> 0, interleaved |-> FALSE]

\* the per-image locals outside the per-image block
Idle ==
    /\ pc = "idle"
    /\ newWidth = Num(0)
    /\ newHeight = Num(0)
    /\ currentQuality = 0
    /\ currentWidth = 0
    /\ currentHeight = 0
    /\ currentFileSizeKB = 0
    /\ iterations = 0
    /\ lastValidDataUrl = EmptyDataUrl
    /\ lastValidFileSizeKB = 0
    /\ initialDataUrl = EmptyDataUrl
    /\ initialSizeKB = 0
    /\ resizedDataUrl = EmptyDataUrl
    /\ renderLog = EmptyLog

locals == <<pc, newWidth, newHeight, fsLocals, resizedDataUrl>>

\* an entry of resizedImages, as far as it is told apart here: the name,
\* which is made from the name of the file
Outcome(j) == [name |-> j]

BatchInit ==
    /\ resizeMode \in {"dimensions", "fileSize"}
    /\ \E e \in BatchEnvelopes :
          IF resizeMode = "dimensions"
          THEN minSize = e[1] /\ maxSize = e[2] /\ minFileSize = 0 /\ maxFileSize = 0
          ELSE minFileSize = e[1] /\ maxFileSize = e[2] /\ minSize = 0 /\ maxSize = 0
    /\ selectedFiles \in Selections
    /\ resizedImages \in {<<>>} \cup
          { <<Outcome(1)>> : x \in {y \in DOMAIN selectedFiles :
                                          y = 1 /\ selectedFiles[y] = "image"} }
    /\ loading = FALSE
    /\ message = ""
    /\ batchFiles = <<>>
    /\ batchCurrent = TRUE
    /\ phase = <<>>
    /\ running = FALSE
    /\ newResizedImages = <<>>
    /\ statusLog = <<>>
    /\ canvasLog = NoCanvasLog
    /\ imgWidth = 0
    /\ imgHeight = 0
    /\ canvas = [width |-> 0, height |-> 0]
    /\ Idle

\* page.tsx:43-49
HandleFileChange ==
    /\ ~running
    /\ \E fileList \in PickedLists : selectedFiles' = fileList
    /\ batchCurrent' = FALSE
    /\ resizedImages' = <<>>
    /\ message' = ""
    /\ UNCHANGED <<inputs, locals, canvas, loading, batchFiles, phase,
                   running, newResizedImages, statusLog, canvasLog>>

\* variant: the test min > max is missing
EnvelopeRejectedNoOrder ==
    IF resizeMode = "dimensions"
    THEN minSize <= 0 \/ maxSize <= 0
    ELSE minFileSize <= 0 \/ maxFileSize <= 0

\* page.tsx:58-73
EnvelopeRejected ==
    IF resizeMode = "dimensions"
    THEN minSize <= 0 \/ maxSize <= 0 \/ minSize > maxSize
    ELSE minFileSize <= 0 \/ maxFileSize <= 0 \/ minFileSize > maxFileSize

\* page.tsx:51-79: the validation, and the start of a batch; the first
\* iteration of the loop follows in the same task (StartFile)
HandleConvert ==
    /\ ~running
    /\ ~loading
    /\ \/ /\ selectedFiles = <<>>
          /\ message' = "Please select at least one image."
          /\ UNCHANGED batchVars
       \/ /\ selectedFiles # <<>>
          /\ EnvelopeRejected
          /\ message' = "Please enter valid min and max"
          /\ UNCHANGED batchVars
       \/ /\ selectedFiles # <<>>
          /\ ~EnvelopeRejected
          /\ loading' = TRUE
          /\ message' = "Resizing images..."
          /\ resizedImages' = <<>>
          /\ newResizedImages' = <<>>
          /\ batchFiles' = selectedFiles
          /\ batchCurrent' = TRUE
          /\ phase' = [j \in DOMAIN selectedFiles |-> "pending"]
          /\ statusLog' = [j \in DOMAIN selectedFiles |-> 0]
          /\ canvasLog' = NoCanvasLog
          /\ running' = TRUE
          /\ UNCHANGED selectedFiles
    /\ UNCHANGED <<inputs, locals, canvas>>

\* variant: the iterations are started without waiting for one another
MayStartAny(j) == TRUE

\* for ... of with await in its body: iteration j starts when all before it ended
MayStart(j) == \A i \in 1 .. j - 1 : Finished(i)

\* variant: a failure or a skip ends the loop (return in place of continue)
SettleOrAbort(ph, j, result) ==
    IF result = "pushed"
    THEN [ph EXCEPT ![j] = result]
    ELSE [i \in DOMAIN ph |-> IF i >= j THEN result ELSE ph[i]]

\* iteration j ends: continue, the end of the try block, or the catch block
Settle(ph, j, result) == [ph EXCEPT ![j] = result]

\* page.tsx:274-277
Catch(j) ==
    /\ message' = "Failed to process"
    /\ statusLog' = Reported(statusLog, j)
    /\ phase' = Settle(phase, j, "failed")
    /\ running' = TRUE

\* page.tsx:81-93: the head of iteration j up to the first await
StartFile(j) ==
    /\ running
    /\ phase[j] = "pending"
    /\ MayStart(j)
    /\ IF batchFiles[j] = "text"
       THEN /\ message' = "Skipping non-image file"
            /\ statusLog' = Reported(statusLog, j)
            /\ phase' = Settle(phase, j, "skipped")
            /\ UNCHANGED running
       ELSE /\ phase' = [phase EXCEPT ![j] = "reading"]
            /\ running' = FALSE
            /\ UNCHANGED <<message, statusLog>>
    /\ UNCHANGED <<inputs, locals, canvas, selectedFiles, resizedImages, loading,
                   batchFiles, batchCurrent, newResizedImages, canvasLog>>

\* page.tsx:88-101: the FileReader promise settles; on success the Image is
\* created and its load awaited
ReaderSettled(j) ==
    /\ ~running
    /\ phase[j] = "reading"
    /\ \/ /\ phase' = [phase EXCEPT ![j] = "loading"]
          /\ UNCHANGED <<message, statusLog, running>>
       \/ /\ batchFiles[j] = "corrupt"
          /\ Catch(j)
    /\ UNCHANGED <<inputs, locals, canvas, selectedFiles, resizedImages, loading,
                   batchFiles, batchCurrent, newResizedImages, canvasLog>>

\* page.tsx:98-116: the load promise settles; on success the canvas and its
\* 2D context are fetched, and either of them may be missing
ImageSettled(j) ==
    /\ ~running
    /\ phase[j] = "loading"
    /\ \/ /\ batchFiles[j] = "corrupt"
          /\ Catch(j)
          /\ UNCHANGED <<imgWidth, imgHeight, pc>>
       \/ /\ batchFiles[j] = "image"
          /\ phase' = Settle(phase, j, "noCanvas")
          /\ running' = TRUE
          /\ UNCHANGED <<message, statusLog, imgWidth, imgHeight, pc>>
       \/ /\ batchFiles[j] = "image"
          /\ phase' = [phase EXCEPT ![j] = "sync"]
          /\ running' = TRUE
          /\ \E i \in BatchImageSizes : imgWidth' = i[1] /\ imgHeight' = i[2]
          /\ pc' = "branch"
          /\ UNCHANGED <<message, statusLog>>
    /\ UNCHANGED <<resizeMode, minSize, maxSize, minFileSize, maxFileSize, newWidth,
                   newHeight, fsLocals, resizedDataUrl, canvas, selectedFiles,
                   resizedImages, loading, batchFiles, batchCurrent,
                   newResizedImages, canvasLog>>

\* page.tsx:270-273; the locals of the block go out of scope
PushOutcome ==
    /\ InSync
    /\ pc = "done"
    /\ newResizedImages' = Append(newResizedImages, Outcome(CurrentFile))
    /\ phase' = Settle(phase, CurrentFile, "pushed")
    /\ canvasLog' = [canvasLog EXCEPT !.owner = 0]
    /\ pc' = "idle"
    /\ newWidth' = Num(0)
    /\ newHeight' = Num(0)
    /\ currentQuality' = 0
    /\ currentWidth' = 0
    /\ currentHeight' = 0
    /\ currentFileSizeKB' = 0
    /\ iterations' = 0
    /\ lastValidDataUrl' = EmptyDataUrl
    /\ lastValidFileSizeKB' = 0
    /\ initialDataUrl' = EmptyDataUrl
    /\ initialSizeKB' = 0
    /\ resizedDataUrl' = EmptyDataUrl
    /\ renderLog' = EmptyLog
    /\ UNCHANGED <<inputs, canvas, message, selectedFiles, resizedImages, loading,
                   batchFiles, batchCurrent, running, statusLog>>

\* page.tsx:280-282
Publish ==
    /\ running
    /\ \A j \in DOMAIN phase : Finished(j)
    /\ resizedImages' = newResizedImages
    /\ loading' = FALSE
    /\ message' = "Images resized successfully!"
    /\ newResizedImages' = <<>>
    /\ running' = FALSE
    /\ UNCHANGED <<inputs, locals, canvas, selectedFiles, batchFiles,
                   batchCurrent, phase, statusLog, canvasLog>>

BatchNext ==
    \/ HandleFileChange
    \/ HandleConvert
    \/ \E j \in DOMAIN phase : StartFile(j)
    \/ \E j \in DOMAIN phase : ReaderSettled(j)
    \/ \E j \in DOMAIN phase : ImageSettled(j)
    \/ EnterDimensions
    \/ MaxPassStep
    \/ MinPassStep
    \/ RoundAndDraw
    \/ EnterFileSize
    \/ InitialCheck
    \/ LoopIteration
    \/ LoopExit
    \/ PushOutcome
    \/ Publish

BatchSpec == BatchInit /\ [][BatchNext]_vars

----------------------------------------------------------------------------
(* Claims about the batch                                                  *)

\* the envelope of the active mode, <<min, max>>
ActiveEnvelope ==
    IF resizeMode = "dimensions" THEN <<minSize, maxSize>>
    ELSE <<minFileSize, maxFileSize>>

DegenerateEnvelope ==
    \/ ActiveEnvelope[1] <= 0
    \/ ActiveEnvelope[2] <= 0
    \/ ActiveEnvelope[1] > ActiveEnvelope[2]

\* C11: with an envelope of the active mode that has min <= 0, max <= 0 or
\* min > max, no step starts a batch: loading stays false, no file is read,
\* decoded or rendered, the canvas is not touched and no outcome is
\* collected; and the step of handleConvert that reports the envelope
\* changes the message and nothing else, resizedImages included.
C11_InvalidEnvelopeRefused ==
    [][DegenerateEnvelope =>
          /\ ~loading'
          /\ ~running'
          /\ phase' = <<>>
          /\ newResizedImages' = <<>>
          /\ canvasLog' = NoCanvasLog
          /\ canvas' = canvas
          /\ pc' = "idle"
          /\ (message' = "Please enter valid min and max") =>
                UNCHANGED <<inputs, locals, canvas, batchVars>>]_vars

\* handleConvert has refused an envelope while earlier results were displayed
C11_Witness ==
    /\ DegenerateEnvelope
    /\ message = "Please enter valid min and max"
    /\ resizedImages # <<>>
    /\ selectedFiles # <<>>

\* the step in which handleConvert stores its outcomes and ends
PublishStep == loading /\ ~loading'

\* file j is an image that was decoded and for which the canvas was there
Accepted(j) == batchFiles[j] = "image" /\ phase[j] # "noCanvas"

\* one outcome per accepted file of the batch, in the order of the files
ExpectedOutcomes ==
    LET all == [j \in 1 .. Len(batchFiles) |-> j]
        acc == SelectSeq(all, Accepted)
    IN  [k \in 1 .. Len(acc) |-> Outcome(acc[k])]

\* C12: when handleConvert stores its outcomes, every file of the batch has
\* been dealt with: a non-image was skipped, an unreadable or undecodable
\* file failed, an image without canvas was dropped, every other image was
\* pushed; and the stored sequence holds exactly one outcome per accepted
\* file, in the order of the files.
C12_BatchIsolation ==
    [][PublishStep =>
          /\ \A j \in DOMAIN batchFiles :
                /\ Finished(j)
                /\ batchFiles[j] = "text" => phase[j] = "skipped"
                /\ batchFiles[j] = "corrupt" => phase[j] = "failed"
                /\ batchFiles[j] = "image" => phase[j] \in {"pushed", "noCanvas"}
          /\ resizedImages' = ExpectedOutcomes]_vars

\* a batch whose first file failed has ended with the outcome of its second
C12_Witness ==
    /\ ~loading
    /\ Len(batchFiles) = 2
    /\ phase[1] = "failed"
    /\ phase[2] = "pushed"
    /\ resizedImages = <<Outcome(2)>>

\* the files whose iteration has begun and has not ended
Open == { j \in DOMAIN phase : phase[j] \in {"reading", "loading", "sync"} }

\* C13: the canvas is never touched for one file while the sequence of
\* canvas steps of another file is open; the file whose sequence is open is
\* the one in its per-image block; at most one file of the batch is being
\* read, decoded or rendered; and the iteration of a file has begun only
\* if the iterations of all files before it have ended.
C13_NoInterleaving ==
    /\ ~canvasLog.interleaved
    /\ canvasLog.owner # 0 =>
          /\ canvasLog.owner \in DOMAIN phase
          /\ phase[canvasLog.owner] = "sync"
    /\ Cardinality(Open) <= 1
    /\ \A j \in DOMAIN phase :
          phase[j] # "pending" => \A k \in 1 .. j - 1 : Finished(k)

\* the second image is on the canvas after the outcome of the first was pushed
C13_Witness ==
    /\ Len(batchFiles) = 2
    /\ phase[1] = "pushed"
    /\ phase[2] = "sync"
    /\ canvasLog.owner = 2
    /\ newResizedImages = <<Outcome(1)>>
    /\ renderLog.count > 1

\* C14: for every file of the batch whose iteration has ended, exactly one
\* status was emitted through setMessage: for pushed images as well as for
\* skipped and failed files and for images dropped for want of a canvas.
C14_OneStatusPerFile ==
    \A j \in DOMAIN phase : Finished(j) => statusLog[j] = 1

\* C16: while the selection has been replaced and no handleConvert has
\* begun since, no outcomes are displayed: a conversion that began on the
\* previous selection does not publish over the new one.
C16_ResultsMatchSelection ==
    ~batchCurrent => resizedImages = <<>>

====
